---- MODULE Spec2Model ----
(***************************************************************************)
(* ForOfLoop::run (boa/src/syntax/ast/node/iteration/for_of_loop/mod.rs)   *)
(* as a state machine over the interpreter context: the environment stack, *)
(* the frames it refers to, the executor's InterpreterState slot and the   *)
(* stack of active run() calls.                                            *)
(*                                                                         *)
(* The program executed is one for-of statement whose body is, at each     *)
(* execution, either a statement that is not a loop or one more for-of     *)
(* statement with such a body: a nest of two loops. run() is followed      *)
(* statement by statement (pc): push, next, install, body, state, pop.     *)
(* The environment operations, the iterator, the body statement and the    *)
(* handle_state_with_labels! macro are outside this file; they follow the  *)
(* contracts of the specification.                                         *)
(***************************************************************************)
EXTENDS Integers, Sequences, FiniteSets, TLC

\* ---------------------------------------------------------------- bounds
\* values the iterators of one execution hand out, all loops together, before
\* they must report done
MaxYields == 2
\* the values an iterator or a body can produce are 1..MaxVal
MaxVal == 2
\* entries of a declaration list in the loop head range over 0..MaxDecls
MaxDecls == 2

Undefined == 0
Values == 1..MaxVal
Names == {"x", "y"}
NoLabel == "none"

VARIABLES
    frames,      \* every frame allocated and still referenced: parent, kind, bindings
    envStack,    \* context's environment stack (frame indices), current one last
    state,       \* executor's InterpreterState slot
    stack,       \* active run() calls, innermost last
    ret,         \* what the run() call that ended last returned
    captured,    \* environments captured by closures the bodies created
    yielded,     \* how many values the iterators have handed out so far
    raised       \* the last break / continue / return a body statement raised

vars == <<frames, envStack, state, stack, ret, captured, yielded, raised>>

\* ------------------------------------------------------ Environment Chain
NoBinding == [exists |-> FALSE, value |-> Undefined, mutable |-> FALSE, initialized |-> FALSE]

EmptyFrame(parent, func) ==
    [parent |-> parent, func |-> func, b |-> [n \in Names |-> NoBinding]]

\* context.get_current_environment()
get_current_environment(es) == es[Len(es)]

RECURSIVE Resolve(_, _, _)
\* the nearest frame, from f up the parent links, that binds name (0: none does)
Resolve(fr, f, name) ==
    IF f = 0 THEN 0
    ELSE IF fr[f].b[name].exists THEN f
    ELSE Resolve(fr, fr[f].parent, name)

RECURSIVE FunctionFrame(_, _)
\* the nearest function-level frame from f up the parent links
FunctionFrame(fr, f) ==
    IF fr[f].func \/ fr[f].parent = 0 THEN f ELSE FunctionFrame(fr, fr[f].parent)

\* context.has_binding(name)
has_binding(fr, es, name) == Resolve(fr, get_current_environment(es), name) # 0

\* VariableScope::Function | VariableScope::Block
TargetFrame(fr, es, scope) ==
    IF scope = "Function" THEN FunctionFrame(fr, get_current_environment(es))
    ELSE get_current_environment(es)

\* the result of an environment operation: Ok with the new frames, or Err(msg)
EnvOk(fr) == [ok |-> TRUE, msg |-> "", frames |-> fr]
EnvErr(fr, msg) == [ok |-> FALSE, msg |-> msg, frames |-> fr]

CreateBinding(fr, es, name, scope, mutable) ==
    LET t == TargetFrame(fr, es, scope) IN
    IF fr[t].b[name].exists THEN EnvErr(fr, "redeclaration")
    ELSE EnvOk([fr EXCEPT ![t].b[name] =
                   [exists |-> TRUE, value |-> Undefined,
                    mutable |-> mutable, initialized |-> FALSE]])

\* context.create_mutable_binding(name, deletable, scope)
create_mutable_binding(fr, es, name, scope) == CreateBinding(fr, es, name, scope, TRUE)

\* context.create_immutable_binding(name, deletable, scope)
create_immutable_binding(fr, es, name, scope) == CreateBinding(fr, es, name, scope, FALSE)

\* context.initialize_binding(name, value)
initialize_binding(fr, es, name, value) ==
    LET t == Resolve(fr, get_current_environment(es), name) IN
    IF t = 0 THEN EnvErr(fr, "undeclared")
    ELSE EnvOk([fr EXCEPT ![t].b[name].value = value,
                          ![t].b[name].initialized = TRUE])

\* context.set_mutable_binding(name, value, strict)
set_mutable_binding(fr, es, name, value, strict) ==
    LET t == Resolve(fr, get_current_environment(es), name) IN
    IF t = 0 THEN (IF strict THEN EnvErr(fr, "undeclared") ELSE EnvOk(fr))
    ELSE IF ~fr[t].b[name].mutable THEN EnvErr(fr, "immutable")
    ELSE EnvOk([fr EXCEPT ![t].b[name].value = value])

\* context.push_environment(DeclarativeEnvironmentRecord::new(Some(env)))
push_environment(fr, es, env) ==
    [frames |-> Append(fr, EmptyFrame(env, FALSE)), envStack |-> Append(es, Len(fr) + 1)]

\* frames some closure still holds
Held(cap) == {c.frame : c \in cap}

\* context.pop_environment(): the current frame leaves the stack; the frame
\* itself is freed unless a closure holds it
pop_environment(fr, es, cap) ==
    LET f == es[Len(es)] IN
    [frames |-> IF f = Len(fr) /\ f \notin Held(cap) THEN SubSeq(fr, 1, Len(fr) - 1) ELSE fr,
     envStack |-> SubSeq(es, 1, Len(es) - 1)]

\* ------------------------------------------------------- InterpreterState
Executing == [tag |-> "Executing", label |-> NoLabel]
Signal(tag, label) == [tag |-> tag, label |-> label]

\* a signal as a body statement raised it: the value the statement produced
\* and how many run() calls were active (1: in the body of the outermost loop)
NoSignal == [tag |-> "Executing", label |-> NoLabel, value |-> Undefined, depth |-> 0]
Raised(op, depth) == [tag |-> op.op, label |-> op.label, value |-> op.value, depth |-> depth]

\* ------------------------------------------------------------- loop heads
\* self.variable(): the node kind, the number of declarations of a list, whether
\* the single declaration has an initializer, and the name it declares
LoopHead(kind, n, init, name) == [kind |-> kind, n |-> n, init |-> init, name |-> name]

ListKinds == {"VarDeclList", "LetDeclList", "ConstDeclList"}

\* the heads of the loops executed: the outermost loop declares x, a loop in
\* its body declares x again or y
Heads(names) ==
    {LoopHead("Identifier", 1, FALSE, nm) : nm \in names}
    \cup {LoopHead(k, 1, FALSE, nm) : k \in ListKinds, nm \in names}
    \cup {LoopHead(k, 1, TRUE, "x") : k \in ListKinds}
    \cup {LoopHead(k, n, FALSE, "x") : k \in ListKinds, n \in (0..MaxDecls) \ {1}}
    \cup {LoopHead("Assign", 1, FALSE, "x"), LoopHead("Other", 1, FALSE, "x")}

LegalHead(h) == h.kind = "Identifier" \/ (h.kind \in ListKinds /\ h.n = 1 /\ ~h.init)

\* --------------------------------------------------------- run() records
\* one active call of ForOfLoop::run: its loop (variable, label), its locals
\* (result, next_result), where it is (pc), and what it has done so far: the
\* environment stack it was entered with, whether its variable resolved then,
\* its calls of push_environment, pop_environment and next(), the values next()
\* yielded, the body executions started and completed, the bindings its
\* installer created, whether some body execution ended abruptly (a signal or a
\* failure, in a nested loop too), whether its body assigned the loop variable,
\* whether the body touched that name at all (assigned it, or ran a loop
\* over the same name), and the value of the last body execution that left the
\* state slot at Executing
NewRun(variable, label, es, fr) ==
    [variable |-> variable, label |-> label, pc |-> "push",
     result |-> Undefined, next_result |-> Undefined,
     entryStack |-> es, bound |-> has_binding(fr, es, variable.name),
     pushes |-> 0, pops |-> 0, nextCalls |-> 0, yields |-> 0,
     bodyRuns |-> 0, bodyDone |-> 0, creates |-> 0,
     abrupt |-> FALSE, assigned |-> FALSE, touched |-> FALSE,
     lastNormal |-> Undefined]

NoRun == [NewRun(LoopHead("Other", 1, FALSE, "x"), NoLabel, <<1>>,
                 <<EmptyFrame(0, TRUE)>>) EXCEPT !.pc = "none"]

NoRet == [kind |-> "none", value |-> Undefined, msg |-> "", how |-> "", run |-> NoRun]
Ok(value, how, r) == [kind |-> "ok", value |-> value, msg |-> "", how |-> how, run |-> r]
Err(msg, how, r) == [kind |-> "err", value |-> Undefined, msg |-> msg, how |-> how, run |-> r]

Top == stack[Len(stack)]
Callers == SubSeq(stack, 1, Len(stack) - 1)
At(pc) == stack # <<>> /\ Top.pc = pc

\* ------------------------------------------------------ Binding Installer
Installed(r, creates) == [ok |-> r.ok, msg |-> r.msg, frames |-> r.frames, creates |-> creates]

\* context.throw_syntax_error(msg)
throw_syntax_error(fr, msg) == Installed(EnvErr(fr, msg), 0)

\* CreateThenInitialize without the initialize_binding call
CreateOnly(fr, es, name, scope, mutable, value) ==
    LET c == IF mutable THEN create_mutable_binding(fr, es, name, scope)
             ELSE create_immutable_binding(fr, es, name, scope) IN
    Installed(c, IF c.ok THEN 1 ELSE 0)

\* create_*_binding(..)?; initialize_binding(..)?
CreateThenInitialize(fr, es, name, scope, mutable, value) ==
    LET c == IF mutable THEN create_mutable_binding(fr, es, name, scope)
             ELSE create_immutable_binding(fr, es, name, scope) IN
    IF ~c.ok THEN Installed(c, 0)
    ELSE Installed(initialize_binding(c.frames, es, name, value), 1)

\* SetOrCreate creating the binding in the current frame
SetOrCreateInBlock(fr, es, name, value) ==
    IF has_binding(fr, es, name)
    THEN Installed(set_mutable_binding(fr, es, name, value, TRUE), 0)
    ELSE CreateThenInitialize(fr, es, name, "Block", TRUE, value)

\* if context.has_binding(name) { set_mutable_binding } else { create; initialize }
SetOrCreate(fr, es, name, value) ==
    IF has_binding(fr, es, name)
    THEN Installed(set_mutable_binding(fr, es, name, value, TRUE), 0)
    ELSE CreateThenInitialize(fr, es, name, "Function", TRUE, value)

\* DeclScope with the scope of a var declaration
DeclScopeFunction == "Function"

\* the scope a let or const declaration of the loop head is created in
DeclScope == "Block"

\* InstallBinding without the NodeKind::Assign arm: an assignment in the head
\* falls to the `_` arm
InstallBindingNoAssignArm(variable, next_result, fr, es) ==
    CASE variable.kind = "Identifier" -> SetOrCreate(fr, es, variable.name, next_result)
      [] variable.kind \in ListKinds ->
            IF variable.n # 1
            THEN throw_syntax_error(fr, "only one variable can be declared in the head of a for-of loop")
            ELSE IF variable.init
            THEN throw_syntax_error(fr, "a declaration in the head of a for-of loop can't have an initializer")
            ELSE IF variable.kind = "VarDeclList"
            THEN SetOrCreate(fr, es, variable.name, next_result)
            ELSE CreateThenInitialize(fr, es, variable.name, DeclScope,
                                      variable.kind = "LetDeclList", next_result)
      [] OTHER ->
            throw_syntax_error(fr, "unknown left hand side in head of for-of loop")

\* match self.variable().kind() { .. }
InstallBinding(variable, next_result, fr, es) ==
    CASE variable.kind = "Identifier" -> SetOrCreate(fr, es, variable.name, next_result)
      [] variable.kind \in ListKinds ->
            IF variable.n # 1
            THEN throw_syntax_error(fr, "only one variable can be declared in the head of a for-of loop")
            ELSE IF variable.init
            THEN throw_syntax_error(fr, "a declaration in the head of a for-of loop can't have an initializer")
            ELSE IF variable.kind = "VarDeclList"
            THEN SetOrCreate(fr, es, variable.name, next_result)
            ELSE CreateThenInitialize(fr, es, variable.name, DeclScope,
                                      variable.kind = "LetDeclList", next_result)
      [] variable.kind = "Assign" ->
            throw_syntax_error(fr, "a declaration in the head of a for-of loop can't have an initializer")
      [] OTHER ->
            throw_syntax_error(fr, "unknown left hand side in head of for-of loop")

\* ------------------------------------------------ handle_state_with_labels
\* a labelled signal that does not name this loop leaves the loop (its frame
\* popped) with the state slot untouched; any other is consumed: the slot goes
\* back to Executing
handle_state_with_labels(selfLabel, label) ==
    IF label # NoLabel /\ selfLabel # label
    THEN [consumed |-> FALSE, pop |-> TRUE]
    ELSE [consumed |-> TRUE, pop |-> FALSE]

\* ------------------------------------------------------------------ Init
\* the global (function-level) frame binds x already, or does not
RootFrames ==
    {EmptyFrame(0, TRUE),
     [EmptyFrame(0, TRUE) EXCEPT !.b["x"] =
         [exists |-> TRUE, value |-> Undefined, mutable |-> TRUE, initialized |-> TRUE]]}

Init ==
    /\ frames \in {<<f>> : f \in RootFrames}
    /\ envStack = <<1>>
    /\ state = Executing
    /\ stack = <<>>
    /\ ret = NoRet
    /\ captured = {}
    /\ yielded = 0
    /\ raised = NoSignal

\* ------------------------------------------------------------ run(): entry
StartOutcomes == {"source", "iterator", "ok"}
\* the label of the outermost loop is L if it has one, that of a loop in its
\* body is M; a break or continue can name either
OuterLabels == {NoLabel, "L"}
InnerLabels == {NoLabel, "M"}
SignalLabels == {NoLabel, "L", "M"}

\* StartRun with the push of the first frame ahead of the two `?` of the entry
StartRunPushesFirst(callers, variable, label, outcome) ==
    /\ LET p == push_environment(frames, envStack, get_current_environment(envStack)) IN
         /\ frames' = p.frames
         /\ envStack' = p.envStack
    /\ IF outcome = "ok"
       THEN /\ stack' = Append(callers, [NewRun(variable, label, envStack, frames)
                                            EXCEPT !.pc = "next", !.pushes = 1])
            /\ ret' = NoRet
       ELSE /\ stack' = callers
            /\ ret' = Err(outcome, outcome, NoRun)
    /\ UNCHANGED <<state, captured, yielded, raised>>

\* let iterable = self.iterable().run(context)?;
\* let iterator = get_iterator(context, iterable)?;
\* let mut result = Value::undefined();
StartRun(callers, variable, label, outcome) ==
    /\ IF outcome = "ok"
       THEN /\ stack' = Append(callers, NewRun(variable, label, envStack, frames))
            /\ ret' = NoRet
       ELSE /\ stack' = callers
            /\ ret' = Err(outcome, outcome, NoRun)
    /\ UNCHANGED <<frames, envStack, state, captured, yielded, raised>>

\* the enclosing routine executes the loop statement
Call ==
    /\ stack = <<>>
    /\ ret.kind = "none"
    /\ \E v \in Heads({"x"}), l \in OuterLabels, o \in StartOutcomes : StartRun(<<>>, v, l, o)

\* run() returns r to its caller
Leave(r) ==
    /\ stack' = Callers
    /\ ret' = r

\* run() goes on at pc with its record updated to r
Goto(r, pc) ==
    /\ stack' = Append(Callers, [r EXCEPT !.pc = pc])
    /\ ret' = NoRet

\* -------------------------------------------------- run(): one iteration
\* let env = context.get_current_environment();
\* context.push_environment(DeclarativeEnvironmentRecord::new(Some(env)));
PushEnv ==
    /\ At("push")
    /\ LET p == push_environment(frames, envStack, get_current_environment(envStack)) IN
         /\ frames' = p.frames
         /\ envStack' = p.envStack
    /\ Goto([Top EXCEPT !.pushes = @ + 1], "next")
    /\ UNCHANGED <<state, captured, yielded, raised>>

\* iterator.next(context)? failed
NextFails(r) ==
    /\ Leave(Err("next", "next", r))
    /\ UNCHANGED <<frames, envStack, state, captured, yielded, raised>>

\* NextDone without the `break;`: the frame is popped and the loop starts over
NextDoneGoesOn(r) ==
    /\ LET p == pop_environment(frames, envStack, captured) IN
         /\ frames' = p.frames
         /\ envStack' = p.envStack
    /\ Goto([r EXCEPT !.pops = @ + 1], "push")
    /\ UNCHANGED <<state, captured, yielded, raised>>

\* if iterator_result.is_done() { context.pop_environment(); break; }
NextDone(r) ==
    /\ LET p == pop_environment(frames, envStack, captured) IN
         /\ frames' = p.frames
         /\ envStack' = p.envStack
    /\ Leave(Ok(r.result, "done", [r EXCEPT !.pops = @ + 1]))
    /\ UNCHANGED <<state, captured, yielded, raised>>

\* let next_result = iterator_result.value();
NextValue(r, v) ==
    /\ Goto([r EXCEPT !.next_result = v, !.yields = @ + 1], "install")
    /\ yielded' = yielded + 1
    /\ UNCHANGED <<frames, envStack, state, captured, raised>>

\* let iterator_result = iterator.next(context)?;
IterNext ==
    /\ At("next")
    /\ LET r == [Top EXCEPT !.nextCalls = @ + 1] IN
         \/ NextFails(r)
         \/ NextDone(r)
         \/ \E v \in Values : yielded < MaxYields /\ NextValue(r, v)

\* match self.variable().kind() { .. }: the binding is installed or run() fails
Install ==
    /\ At("install")
    /\ LET i == InstallBinding(Top.variable, Top.next_result, frames, envStack) IN
         /\ frames' = i.frames
         /\ IF i.ok
            THEN Goto([Top EXCEPT !.creates = @ + i.creates], "body")
            ELSE Leave(Err(i.msg, "install", Top))
    /\ UNCHANGED <<envStack, state, captured, yielded, raised>>

\* ------------------------------------------------------ run(): the body
\* what one execution of a body statement that is not itself a loop can do: it
\* yields a value, raises break / continue / return through the state slot,
\* throws, assigns the loop variable, or creates a closure over its environment
BodyOps ==
    {[op |-> "Normal", value |-> v, label |-> NoLabel] : v \in Values}
    \cup {[op |-> o, value |-> Undefined, label |-> l] : o \in {"Break", "Continue"}, l \in SignalLabels}
    \cup {[op |-> "Return", value |-> v, label |-> NoLabel] : v \in Values}
    \cup {[op |-> o, value |-> Undefined, label |-> NoLabel] : o \in {"Assign", "Throw", "Capture"}}

\* a closure created in the body: the environment it holds, and for the record
\* the loop variable, its value in that iteration and the loop it belongs to
Closure(r, es) ==
    [frame |-> get_current_environment(es), name |-> r.variable.name,
     value |-> r.next_result, kind |-> r.variable.kind,
     iter |-> r.yields, entry |-> r.entryStack]

\* the body statement run by self.body().run(context): its Result, and what it
\* left in the frames, the state slot and the closures
RunBody(op, r, fr, es, st, cap) ==
    LET out(kind, msg, value, f, s, c) ==
            [kind |-> kind, msg |-> msg, value |-> value, frames |-> f, state |-> s, captured |-> c]
        set == set_mutable_binding(fr, es, r.variable.name, op.value, TRUE) IN
    CASE op.op = "Normal" -> out("ok", "", op.value, fr, st, cap)
      [] op.op \in {"Break", "Continue"} -> out("ok", "", op.value, fr, Signal(op.op, op.label), cap)
      [] op.op = "Return" -> out("ok", "", op.value, fr, Signal("Return", NoLabel), cap)
      [] op.op = "Throw" -> out("err", "throw", Undefined, fr, st, cap)
      [] op.op = "Assign" ->
            IF set.ok THEN out("ok", "", op.value, set.frames, st, cap)
            ELSE out("err", set.msg, Undefined, fr, st, cap)
      [] op.op = "Capture" -> out("ok", "", Undefined, fr, st, cap \cup {Closure(r, es)})

\* AfterBody with the `?` left out: a failed body counts as one that yielded
\* undefined
AfterBodyUnchecked(r, b, st) ==
    Goto([r EXCEPT !.result = b.value, !.bodyDone = @ + 1], "state")

\* result = self.body().run(context)?;
\* b is the body's Result, st the state slot it left
AfterBody(r, b, st) ==
    LET q == [r EXCEPT !.abrupt = @ \/ b.kind = "err" \/ st # Executing \/ b.run.abrupt,
                       !.touched = @ \/ r.assigned
                                     \/ (b.run.yields > 0 /\ b.run.variable.name = r.variable.name)] IN
    IF b.kind = "err"
    THEN Leave(Err(b.msg, "body", q))
    ELSE Goto([q EXCEPT !.result = b.value, !.bodyDone = @ + 1,
                        !.lastNormal = IF st = Executing THEN b.value ELSE @], "state")

\* the body is a statement that is not a loop
BodyLeaf ==
    /\ At("body")
    /\ \E op \in BodyOps :
         LET r == [Top EXCEPT !.bodyRuns = @ + 1, !.assigned = @ \/ op.op = "Assign"]
             b == RunBody(op, r, frames, envStack, state, captured) IN
           /\ frames' = b.frames
           /\ state' = b.state
           /\ captured' = b.captured
           /\ raised' = IF op.op \in {"Break", "Continue", "Return"}
                        THEN Raised(op, Len(stack)) ELSE raised
           /\ AfterBody(r, [kind |-> b.kind, msg |-> b.msg, value |-> b.value, run |-> NoRun], b.state)
    /\ UNCHANGED <<envStack, yielded>>

\* the body of the outermost loop is another for-of loop: its run() is entered
BodyLoop ==
    /\ At("body")
    /\ Len(stack) = 1
    /\ \E v \in Heads(Names), l \in InnerLabels, o \in StartOutcomes :
         StartRun(Append(Callers, [Top EXCEPT !.bodyRuns = @ + 1, !.pc = "wait"]), v, l, o)

\* the run() of the loop in the body has returned
BodyReturn ==
    /\ At("wait")
    /\ ret.kind # "none"
    /\ AfterBody(Top, ret, state)
    /\ UNCHANGED <<frames, envStack, state, captured, yielded, raised>>

\* -------------------------------------- run(): the state left by the body
\* run() leaves the loop for `Ok(result)`, popping its frame first when pop is set
LeaveLoop(how, pop) ==
    /\ LET p == IF pop THEN pop_environment(frames, envStack, captured)
                ELSE [frames |-> frames, envStack |-> envStack] IN
         /\ frames' = p.frames
         /\ envStack' = p.envStack
    /\ Leave(Ok(Top.result, how, [Top EXCEPT !.pops = @ + (IF pop THEN 1 ELSE 0)]))

\* OnBreak without the macro: every Break ends the loop here
OnBreakAlwaysConsumed == state' = Executing /\ LeaveLoop("break", FALSE)

\* OnBreak without the `break;` after the macro: the loop goes on as for Continue
OnBreakGoesOn ==
    LET m == handle_state_with_labels(Top.label, state.label) IN
    IF m.consumed
    THEN state' = Executing /\ Goto(Top, "pop") /\ UNCHANGED <<frames, envStack>>
    ELSE UNCHANGED state /\ LeaveLoop("reemit", m.pop)

\* InterpreterState::Break(label) => { handle_state_with_labels!(..); break; }
OnBreak ==
    LET m == handle_state_with_labels(Top.label, state.label) IN
    IF m.consumed
    THEN state' = Executing /\ LeaveLoop("break", FALSE)
    ELSE UNCHANGED state /\ LeaveLoop("reemit", m.pop)

\* OnContinue with the `break;` of the Break arm after the macro
OnContinueBreaks == OnBreak

\* InterpreterState::Continue(label) => { handle_state_with_labels!(..); }
OnContinue ==
    LET m == handle_state_with_labels(Top.label, state.label) IN
    IF m.consumed
    THEN state' = Executing /\ Goto(Top, "pop") /\ UNCHANGED <<frames, envStack>>
    ELSE UNCHANGED state /\ LeaveLoop("reemit", m.pop)

\* InterpreterState::Return => return Ok(result)
OnReturn == UNCHANGED state /\ LeaveLoop("return", FALSE)

\* InterpreterState::Executing => {}
OnExecuting == Goto(Top, "pop") /\ UNCHANGED <<frames, envStack, state>>

\* match context.executor().get_current_state() { .. }
HandleState ==
    /\ At("state")
    /\ CASE state.tag = "Break" -> OnBreak
         [] state.tag = "Continue" -> OnContinue
         [] state.tag = "Return" -> OnReturn
         [] OTHER -> OnExecuting
    /\ UNCHANGED <<captured, yielded, raised>>

\* PopEnv with the pop_environment call of line 204 left out
PopEnvSkipped ==
    /\ At("pop")
    /\ Goto(Top, "push")
    /\ UNCHANGED <<frames, envStack, state, captured, yielded, raised>>

\* let _ = context.pop_environment();   (then the loop starts over)
PopEnv ==
    /\ At("pop")
    /\ LET p == pop_environment(frames, envStack, captured) IN
         /\ frames' = p.frames
         /\ envStack' = p.envStack
    /\ Goto([Top EXCEPT !.pops = @ + 1], "push")
    /\ UNCHANGED <<state, captured, yielded, raised>>

Next ==
    \/ Call
    \/ PushEnv
    \/ IterNext
    \/ Install
    \/ BodyLeaf
    \/ BodyLoop
    \/ BodyReturn
    \/ HandleState
    \/ PopEnv

Spec == Init /\ [][Next]_vars

\* ================================================================ claims
\* a run() call of the loop has just returned to its caller
Returned == ret.kind # "none" /\ ret.run.pc # "none"
\* the outermost run() has returned to the enclosing routine
Finished == stack = <<>> /\ Returned
\* the frames a run() left on the environment stack above those it was entered with
Leftover(r) == Len(envStack) - Len(r.entryStack)

\* C1: on every exit path of run(), the push_environment calls of the run equal
\* its pop_environment calls, and the current environment on exit is the one
\* that was current on entry.
C1_PushPopBalanced ==
    Returned => /\ ret.run.pushes = ret.run.pops
                /\ envStack = ret.run.entryStack

\* C2: a Return raised by the body of the inner of two nested loops unwinds the
\* frames of both loops, stays in the state slot, and the outer run() yields
\* the returned value.
C2_NestedReturnUnwinds ==
    (Finished /\ raised.tag = "Return" /\ raised.depth = 2)
        => /\ envStack = ret.run.entryStack
           /\ state = Signal("Return", NoLabel)
           /\ ret.kind = "ok"
           /\ ret.value = raised.value

\* C3: a failure after the frame of an iteration was pushed (next(), the
\* binding installer, the body) pops that frame before run() propagates it.
C3_FailurePopsFrame ==
    (Returned /\ ret.kind = "err") => ret.run.pops = ret.run.pushes

\* the frame run r pushed for its current iteration: the one right above the
\* environments it was entered with
IterFrame(r) == envStack[Len(r.entryStack) + 1]
EntryEnv(r) == r.entryStack[Len(r.entryStack)]
InIteration(r) == r.pc \in {"next", "install", "body", "wait", "state", "pop"}

\* C4: while no body execution has ended abruptly, the body has run once per
\* value yielded; each iteration runs in a frame of its own, pushed on the
\* environments of entry and empty until the binding is installed, and popped
\* before the next one is pushed; and when the iterator is done after N values
\* the body has run N times and the environment is the one of entry.
C4_NormalBodies ==
    /\ \A i \in DOMAIN stack :
         LET r == stack[i] IN
         ~r.abrupt =>
           /\ r.pc = "push" => /\ envStack = r.entryStack
                               /\ r.bodyRuns = r.yields /\ r.bodyDone = r.yields
           /\ InIteration(r) =>
                /\ Len(envStack) > Len(r.entryStack)
                /\ SubSeq(envStack, 1, Len(r.entryStack)) = r.entryStack
                /\ frames[IterFrame(r)].parent = EntryEnv(r)
                /\ r.pushes = r.pops + 1
                /\ r.pc # "wait" => Len(envStack) = Len(r.entryStack) + 1
                /\ r.pc \in {"next", "install"} =>
                     /\ frames[IterFrame(r)] = EmptyFrame(EntryEnv(r), FALSE)
                     /\ r.bodyRuns = r.yields - (IF r.pc = "install" THEN 1 ELSE 0)
    /\ (Returned /\ ret.how = "done" /\ ~ret.run.abrupt) =>
           /\ ret.run.bodyRuns = ret.run.yields
           /\ ret.run.bodyDone = ret.run.yields
           /\ ret.run.pushes = ret.run.pops
           /\ envStack = ret.run.entryStack

C4_Witness ==
    /\ Finished /\ ret.how = "done" /\ ~ret.run.abrupt
    /\ ret.run.yields = 2 /\ ret.run.bodyRuns = 2

\* C5: a closure created in the body of a loop with a let head holds a frame
\* of its own (no other closure holds it) in which the loop variable is bound
\* to the value the iterator yielded for that iteration, then and ever after.
C5_LetBindingPerIteration ==
    \A c \in captured :
        c.kind = "LetDeclList" =>
          /\ Resolve(frames, c.frame, c.name) = c.frame
          /\ frames[c.frame].b[c.name].initialized
          /\ frames[c.frame].b[c.name].value = c.value
          /\ \A d \in captured : d # c => d.frame # c.frame

C5_Witness ==
    /\ Finished
    /\ \E c, d \in captured :
         /\ c.kind = "LetDeclList" /\ d.kind = "LetDeclList"
         /\ c.entry = d.entry /\ c.iter = 1 /\ d.iter = 2
         /\ c.value # d.value

\* the binding name resolves to from the current environment
Lookup(name) ==
    LET f == Resolve(frames, get_current_environment(envStack), name) IN
    IF f = 0 THEN NoBinding ELSE frames[f].b[name]

\* C6: a loop with a var head whose variable was unbound on entry and whose
\* body neither ends abruptly nor touches the variable creates one binding, in
\* the function-level frame, in its first iteration; each iteration leaves the
\* value just yielded in it, and after the loop the variable resolves to that
\* binding with the last value yielded.
C6_VarBindingReused ==
    LET var(r) == r.variable.kind = "VarDeclList" /\ ~r.bound /\ ~r.abrupt /\ ~r.touched
        inFunctionFrame(r) ==
            /\ r.creates = 1
            /\ Resolve(frames, get_current_environment(envStack), r.variable.name)
                   = FunctionFrame(frames, get_current_environment(envStack))
            /\ Lookup(r.variable.name).value = r.next_result
            /\ Lookup(r.variable.name).initialized
    IN
    /\ (stack # <<>> /\ var(Top) /\ Top.pc \in {"body", "state", "pop", "push"} /\ Top.yields > 0)
           => inFunctionFrame(Top)
    /\ (Returned /\ var(ret.run) /\ ret.how = "done" /\ ret.run.yields > 0)
           => inFunctionFrame(ret.run)

C6_Witness ==
    /\ Finished /\ ret.how = "done" /\ ret.run.yields = 2
    /\ ret.run.variable.kind = "VarDeclList" /\ ~ret.run.bound
    /\ ~ret.run.abrupt /\ ~ret.run.touched
    /\ Lookup("x").value = ret.run.next_result

SyntaxErrors ==
    {"only one variable can be declared in the head of a for-of loop",
     "a declaration in the head of a for-of loop can't have an initializer"}

\* C7: a var, let or const head with other than one declaration, or with an
\* initializer, makes run() fail with the legality error with no body
\* execution, whatever the iterable yields.
C7_IllegalHeadFails ==
    (Returned /\ ret.run.variable.kind \in ListKinds /\ ~LegalHead(ret.run.variable)
              /\ ret.how # "next")
        => /\ ret.kind = "err"
           /\ ret.msg \in SyntaxErrors
           /\ ret.run.bodyRuns = 0

\* the inner of two loops is about to look at the Continue its body raised
InnerSeesContinue(label) ==
    /\ Len(stack) = 2 /\ Top.pc = "state"
    /\ state = Signal("Continue", label) /\ raised.depth = 2
\* the outer loop, labelled L, has the Continue(L) of the inner body before it
OuterHasContinue(pc) ==
    /\ Len(stack) = 1 /\ Top.pc = pc /\ Top.label = "L"
    /\ state = Signal("Continue", "L") /\ raised.depth = 2

\* C8: in two nested loops, the outer labelled L, a Continue(L) of the inner
\* body makes the inner run() return at once (no further next() call or body
\* execution) with the state slot still Continue(L); the outer loop takes it,
\* puts the slot back to Executing and goes on to pop its frame and start its
\* next iteration. An unlabeled Continue of the inner body is consumed by the
\* inner loop, which goes on to its next iteration; the outer run() is untouched.
C8_Step ==
    /\ (InnerSeesContinue("L") /\ stack[1].label = "L") =>
          /\ stack' = <<stack[1]>>
          /\ ret'.kind = "ok" /\ ret'.how = "reemit"
          /\ ret'.run.nextCalls = Top.nextCalls /\ ret'.run.bodyRuns = Top.bodyRuns
          /\ state' = state
    /\ (OuterHasContinue("wait") /\ ret.how = "reemit") =>
          /\ Len(stack') = 1 /\ stack'[1].pc = "state"
          /\ state' = state
    /\ OuterHasContinue("state") =>
          /\ Len(stack') = 1 /\ stack'[1].pc = "pop"
          /\ stack'[1].nextCalls = Top.nextCalls
          /\ state' = Executing
    /\ (Len(stack) = 1 /\ Top.pc = "pop") =>
          /\ Len(stack') = 1 /\ stack'[1].pc = "push"
    /\ (Len(stack) = 1 /\ Top.pc = "push") =>
          /\ Len(stack') = 1 /\ stack'[1].pc = "next"
          /\ stack'[1].pushes = Top.pushes + 1
    /\ InnerSeesContinue(NoLabel) =>
          /\ Len(stack') = 2 /\ stack'[2].pc = "pop"
          /\ stack'[1] = stack[1]
          /\ state' = Executing

C8_LabeledContinue == [][C8_Step]_vars

C8_Witness ==
    /\ Len(stack) = 1 /\ Top.pc = "next" /\ Top.label = "L" /\ Top.pushes = 2
    /\ raised.tag = "Continue" /\ raised.label = "L" /\ raised.depth = 2
    /\ state = Executing

\* C9: when next() succeeds on its first call and fails on its second, run()
\* fails with that error after one completed body execution, and of the frames
\* it pushed only the one of the second iteration is still on the stack.
C9_SecondNextFails ==
    (Returned /\ ret.how = "next" /\ ret.run.nextCalls = 2)
        => /\ ret.kind = "err" /\ ret.msg = "next"
           /\ ret.run.bodyDone = 1
           /\ Leftover(ret.run) = 1

ConstAssigned(r) == r.pc # "none" /\ r.variable.kind = "ConstDeclList" /\ r.assigned

\* C10: when the body of a loop with a const head assigns the loop variable,
\* the body fails with the immutable-binding error, run() returns that error
\* (no run() goes on after such a body), and every enclosing run() returns it
\* too with no further next() call or body execution.
C10_Returned ==
    /\ \A i \in DOMAIN stack : ~ConstAssigned(stack[i])
    /\ (Returned /\ ConstAssigned(ret.run)) =>
          /\ ret.kind = "err" /\ ret.msg = "immutable" /\ ret.how = "body"
          /\ ret.run.bodyDone = ret.run.bodyRuns - 1

C10_Step ==
    (stack # <<>> /\ ret.kind = "err" /\ ret.msg = "immutable" /\ ConstAssigned(ret.run)) =>
        /\ stack' = Callers
        /\ ret'.kind = "err" /\ ret'.msg = "immutable"
        /\ ret'.run.nextCalls = Top.nextCalls /\ ret'.run.bodyRuns = Top.bodyRuns

C10_ConstAssignFails == [](C10_Returned) /\ [][C10_Step]_vars

C10_Witness ==
    /\ Finished /\ ConstAssigned(ret.run)
    /\ ret.kind = "err" /\ ret.msg = "immutable"
    /\ ret.run.yields = 2 /\ ret.run.bodyRuns = 2

\* a Break or Continue naming another loop is in the state slot
ForeignSignal ==
    /\ state.tag \in {"Break", "Continue"}
    /\ state.label # NoLabel /\ state.label # Top.label

\* C11: a Break or Continue whose label is present and is not the loop's own
\* (any labelled one, for a loop without label) is not consumed: run() pops
\* the current frame and returns Ok at once, with no further next() call or
\* body execution, and the state slot holds the same signal with the same label.
C11_Step ==
    (At("state") /\ ForeignSignal) =>
        /\ stack' = Callers
        /\ ret'.kind = "ok" /\ ret'.how = "reemit"
        /\ ret'.run.pops = Top.pops + 1
        /\ envStack' = SubSeq(envStack, 1, Len(envStack) - 1)
        /\ ret'.run.nextCalls = Top.nextCalls /\ ret'.run.bodyRuns = Top.bodyRuns
        /\ state' = state

C11_ForeignLabelReemitted == [][C11_Step]_vars

C11_Witness ==
    /\ Finished /\ ret.how = "reemit" /\ ret.run.label = NoLabel
    /\ state = Signal("Break", "M")
    /\ raised.tag = "Break" /\ raised.depth = 2
    /\ envStack = ret.run.entryStack

\* a Break without label, or with the label of the loop itself, is in the state slot
OwnBreak ==
    /\ state.tag = "Break"
    /\ (state.label = NoLabel \/ state.label = Top.label)

\* C12: a Break with no label, or with the loop's own label, is consumed: run()
\* returns Ok with its result at once, with no further next() call or body
\* execution, and the state slot is back to Executing when it returns.
C12_Step ==
    (At("state") /\ OwnBreak) =>
        /\ stack' = Callers
        /\ ret'.kind = "ok" /\ ret'.how = "break"
        /\ ret'.value = Top.result
        /\ ret'.run.nextCalls = Top.nextCalls /\ ret'.run.bodyRuns = Top.bodyRuns
        /\ state' = Executing

C12_OwnBreakConsumed == [][C12_Step]_vars

C12_Witness ==
    /\ Finished /\ ret.kind = "ok" /\ ret.how = "break" /\ ret.run.label = "L"
    /\ raised.tag = "Break" /\ raised.label = "L" /\ raised.depth = 2
    /\ state = Executing

\* C13: the value of a run() that ends normally (iterator done, or a Break it
\* consumed) is the value of the last body execution that completed normally,
\* a body that ended in Break or Continue leaving it as it was; it is undefined
\* when no body execution completed normally.
C13_LastNormalValue ==
    (Returned /\ ret.kind = "ok" /\ ret.how \in {"done", "break"})
        => ret.value = ret.run.lastNormal

\* C14: the frame a run() pushes for an iteration has as parent the environment
\* that was current when that run() was entered, in every iteration and
\* whatever the body did, a nested loop ended by break, continue or return
\* included.
C14_ParentIsEntryEnv ==
    At("next") => frames[get_current_environment(envStack)].parent = EntryEnv(Top)

\* the head is neither an identifier nor a var, let or const declaration list
UnknownHead(h) == h.kind \notin {"Identifier"} \cup ListKinds

\* what the binding installer answers to a head it has no binding for
HeadFails(msg(_)) ==
    /\ \A i \in DOMAIN stack :
         UnknownHead(stack[i].variable) =>
            /\ stack[i].pc \in {"push", "next", "install"}
            /\ stack[i].bodyRuns = 0
    /\ (Returned /\ UnknownHead(ret.run.variable) /\ ret.run.yields > 0) =>
            /\ ret.kind = "err" /\ ret.how = "install"
            /\ ret.msg = msg(ret.run.variable)
            /\ ret.run.bodyRuns = 0

\* C15, as stated: a head that is none of Identifier, var list, let list, const
\* list (an assignment, for one) makes the binding installer fail with "unknown
\* left hand side in head of for-of loop".
C15_UnknownHeadFails ==
    LET msg(h) == "unknown left hand side in head of for-of loop" IN
    HeadFails(msg)

\* C15, amended: an assignment in the head makes the binding installer fail
\* with "a declaration in the head of a for-of loop can't have an initializer";
\* a head of any other kind that is none of Identifier, var list, let list,
\* const list makes it fail with "unknown left hand side in head of for-of
\* loop". Either way no body execution takes place.
C15_AssignOrUnknownHeadFails ==
    LET msg(h) == IF h.kind = "Assign"
                  THEN "a declaration in the head of a for-of loop can't have an initializer"
                  ELSE "unknown left hand side in head of for-of loop" IN
    HeadFails(msg)

C15_Witness ==
    /\ Returned /\ Len(stack) = 1 /\ ret.run.variable.kind = "Other"
    /\ ret.kind = "err" /\ ret.how = "install"
    /\ ret.msg = "unknown left hand side in head of for-of loop"

\* C16: when evaluating the source fails, or obtaining the iterator fails,
\* run() returns that error having pushed no frame, called next() not once,
\* installed no binding and executed no body: frames, environment stack, state
\* slot and closures are what they were when it was entered.
C16_Step ==
    (ret' # ret /\ ret'.how \in {"source", "iterator"}) =>
        /\ ret'.kind = "err" /\ ret'.msg = ret'.how
        /\ ret'.run = NoRun
        /\ Len(stack') = Len(stack)
        /\ frames' = frames /\ envStack' = envStack
        /\ yielded' = yielded
        /\ state' = state /\ captured' = captured

C16_EntryFailureTouchesNothing == [][C16_Step]_vars

C16_Witness ==
    /\ At("wait") /\ ret.kind = "err" /\ ret.how = "iterator"
    /\ Len(envStack) = Len(Top.entryStack) + 1
    /\ frames[IterFrame(Top)].b[Top.variable.name].exists

\* run() is past the binding installer in the iteration it is in
PastInstall(r) == r.pc \in {"body", "wait", "state", "pop"}

\* C17: an iteration reaches the body only with one of the four legal heads,
\* and between next() and the body the installer has written one binding and
\* no other: the loop variable resolves to a binding that is initialized and
\* holds the value next() yielded, no binding of another name and no other
\* frame has changed, and no frame was added or removed.
C17_Legal ==
    \A i \in DOMAIN stack :
        (PastInstall(stack[i]) \/ stack[i].bodyRuns > 0) => LegalHead(stack[i].variable)

C17_Step ==
    (At("install") /\ Len(stack') = Len(stack) /\ stack'[Len(stack)].pc = "body") =>
        LET n == Top.variable.name
            t == Resolve(frames', get_current_environment(envStack), n) IN
        /\ envStack' = envStack
        /\ DOMAIN frames' = DOMAIN frames
        /\ t # 0
        /\ frames'[t].b[n].initialized
        /\ frames'[t].b[n].value = Top.next_result
        /\ \A f \in DOMAIN frames :
             /\ f # t => frames'[f] = frames[f]
             /\ frames'[f].parent = frames[f].parent
             /\ \A m \in Names \ {n} : frames'[f].b[m] = frames[f].b[m]

C17_OneBindingInstalled == [](C17_Legal) /\ [][C17_Step]_vars

C17_Witness ==
    /\ Len(stack) = 2 /\ Top.pc = "body"
    /\ stack[1].variable.kind = "LetDeclList" /\ Top.variable.kind = "ConstDeclList"
    /\ Top.variable.name = "y"
    /\ Lookup("y").value = Top.next_result /\ Lookup("y").initialized
    /\ Lookup("x").value = stack[1].next_result
    /\ Top.next_result # stack[1].next_result

\* the calls run r has made, by where it is: one push per next() call, made
\* before it; one value installed and one body execution per value yielded
Sequenced(r, pc, how) ==
    LET afterPush == IF pc = "next" THEN 1 ELSE 0
        afterDone == IF how \in {"done", "next"} THEN 1 ELSE 0
        beforeBody == IF pc \in {"install", "body"} \/ how = "install" THEN 1 ELSE 0 IN
    /\ r.pushes = r.nextCalls + afterPush
    /\ r.nextCalls = r.yields + afterDone
    /\ r.yields = r.bodyRuns + beforeBody

C18_Order ==
    /\ \A i \in DOMAIN stack : Sequenced(stack[i], stack[i].pc, "")
    /\ Returned => Sequenced(ret.run, "", ret.how)

\* C18: a run() is entered (source evaluated, iterator obtained) before it has
\* pushed any frame; in each iteration next() is called once, after the push of
\* that iteration and before the installer and the body; and a run() that has
\* seen done, a Break, a Return, a signal for another loop or a failure returns
\* without another next() call.
C18_Step ==
    /\ \A i \in DOMAIN stack' :
         IF i \in DOMAIN stack
         THEN stack'[i].nextCalls =
                 stack[i].nextCalls + (IF i = Len(stack) /\ Top.pc = "next" THEN 1 ELSE 0)
         ELSE /\ stack'[i].pc = "push"
              /\ stack'[i].pushes = 0 /\ stack'[i].nextCalls = 0
              /\ envStack' = envStack
    /\ (At("state") /\ (state.tag \in {"Break", "Return"} \/ ForeignSignal)) =>
          /\ stack' = Callers
          /\ ret'.run.nextCalls = Top.nextCalls
    /\ (At("wait") /\ ret.kind = "err") =>
          /\ stack' = Callers
          /\ ret'.kind = "err"
          /\ ret'.run.nextCalls = Top.nextCalls
    /\ (At("install") /\ Len(stack') < Len(stack)) =>
          /\ ret'.kind = "err"
          /\ ret'.run.nextCalls = Top.nextCalls
    /\ (At("next") /\ Len(stack') < Len(stack)) =>
          /\ ret'.how \in {"done", "next"}
          /\ ret'.run.nextCalls = Top.nextCalls + 1

C18_NextOncePerIteration == [](C18_Order) /\ [][C18_Step]_vars

C18_Witness ==
    /\ Finished /\ ret.how = "done"
    /\ ret.run.pushes = 3 /\ ret.run.nextCalls = 3
    /\ ret.run.yields = 2 /\ ret.run.bodyRuns = 2

LetOrConst(h) == h.kind \in {"LetDeclList", "ConstDeclList"}

\* C19: with a let or const head the installer never fails with a
\* redeclaration error (it fails only for an illegal head, with the legality
\* error), whatever bindings of the same name the frames above hold: the frame
\* it finds current is the one pushed for this iteration, still empty, and the
\* binding it creates is in that frame.
C19_NoRedeclaration ==
    /\ (At("install") /\ LetOrConst(Top.variable)) =>
          frames[get_current_environment(envStack)] =
              EmptyFrame(frames[get_current_environment(envStack)].parent, FALSE)
    /\ (At("body") /\ LetOrConst(Top.variable)) =>
          /\ Resolve(frames, get_current_environment(envStack), Top.variable.name)
                = get_current_environment(envStack)
          /\ Top.creates = Top.yields
    /\ (Returned /\ LetOrConst(ret.run.variable) /\ ret.how = "install") =>
          /\ ret.msg \in SyntaxErrors
          /\ ~LegalHead(ret.run.variable)

C19_Witness ==
    /\ Len(stack) = 2 /\ Top.pc = "body"
    /\ Top.variable.kind = "LetDeclList" /\ Top.variable.name = "x"
    /\ stack[1].variable.kind = "ConstDeclList"
    /\ frames[1].b["x"].exists
    /\ frames[IterFrame(stack[1])].b["x"].exists
    /\ Lookup("x").mutable

====
